---- MODULE Spec2Model ----
(***************************************************************************)
(* Model of scripts/python/contributor_check.py: one run of main(), step   *)
(* by step.  Every external operation (file read, HTTP GET, git index      *)
(* diff) is a step whose outcome is chosen by the environment.  An         *)
(* uncaught Python exception stops the run at the step that raised it      *)
(* (pc keeps that step's label, exc names the exception).                  *)
(*                                                                         *)
(* Strings that are compared (versions, feed titles) are sequences of      *)
(* code points, so that == and >= are Python's str comparisons.  Scores    *)
(* are fixed-point numbers in thousandths (0.8 is 800).  The run is        *)
(* assumed to happen inside a git repository with at least one commit.     *)
(***************************************************************************)
EXTENDS Integers, Sequences, FiniteSets, TLC

VARIABLES
    pc,                        \* the step of main() about to run
    exc,                       \* the uncaught exception, NoExc while running
    release_check,             \* args.release_check
    coverage_score,            \* thousandths, -1 before line 127
    lint_score,                \* thousandths, -1 before line 128
    changelog_version,
    pypi_config_version,
    docs_version,
    meets_coverage,
    meets_lint,
    version_match,
    err_msg_list,
    latest_published_version,
    req,                       \* get_pypi_latest_published_version's local
    count_modified_files,      \* has_staged_or_modified_files' locals
    count_staged_files,
    stdout,                    \* the lines printed so far
    exit_code,                 \* the process's exit status, -1 while running
    ops                        \* the external operations performed, in order

vars == <<pc, exc, release_check, coverage_score, lint_score, changelog_version,
          pypi_config_version, docs_version, meets_coverage, meets_lint,
          version_match, err_msg_list, latest_published_version, req,
          count_modified_files, count_staged_files, stdout, exit_code, ops>>

(* ------------------------------ bounds --------------------------------- *)

\* The feed holds at most this many title elements.
MaxTitles == 3

\* Each of the two git index diffs lists at most this many files.
MaxChanged == 1

(* ------------------------------ values --------------------------------- *)

\* Python's None, where a str is expected: no str holds the code point -1.
None == <<-1>>

NoExc == "NoExc"
NoReq == [kind |-> "none", status |-> 0, wellformed |-> FALSE, titles |-> <<>>]

\* "1.10.0", "1.2.0", "1.2.1" as code points ('.' is 46, '0' is 48).
V1_10_0 == <<49, 46, 49, 48, 46, 48>>
V1_2_0 == <<49, 46, 50, 46, 48>>
V1_2_1 == <<49, 46, 50, 46, 49>>
Versions == {V1_10_0, V1_2_0, V1_2_1}

\* The feed's own title, "PyPI": its first title element.
FeedTitle == <<80, 121, 80, 73>>

\* percent_covered values of coverage.tfc.json.
CoveragePercents == {50, 79, 80, 95}

\* The rating of lint_output.txt's last line, in tenths ("8.9/10" is 89).
LintRatings == {89, 90, 95}

\* What reading a report gives: no file (FileNotFoundError), a file without
\* the expected content (a JSON, key, index or float error, here ParseError),
\* or the number read from it.
ReportFiles(numbers) ==
    {[kind |-> "missing", number |-> 0], [kind |-> "malformed", number |-> 0]}
    \cup [kind : {"ok"}, number : numbers]

\* What a version file holds: no file, or the version of its first matching
\* line (None when no line matches).  CHANGELOG.md's version is a slice, which
\* never raises.
ChangelogFiles ==
    {[kind |-> "missing", version |-> None]}
    \cup [kind : {"ok"}, version : Versions \cup {None}]

\* setup.py and docs/conf.py: the matching line may also lack the quotes that
\* split(...)[1] needs.
QuotedFiles == ChangelogFiles \cup {[kind |-> "malformed", version |-> None]}

\* The text of a title element: <title/> has the text None.
TitleTexts == Versions \cup {None}

RECURSIVE SeqsUpTo(_, _)
SeqsUpTo(S, n) ==
    IF n = 0 THEN {<<>>}
    ELSE LET shorter == SeqsUpTo(S, n - 1)
         IN  shorter \cup {Append(s, x) : s \in shorter, x \in S}

\* The title elements of a well-formed document, in document order.
TitleLists ==
    {<<>>} \cup {<<FeedTitle>> \o rest : rest \in SeqsUpTo(TitleTexts, MaxTitles - 1)}

\* What requests.get can do: raise, or return a response of any status whose
\* content is, or is not, well-formed XML.
Responses ==
    {[kind |-> "network_failure", status |-> 0, wellformed |-> FALSE, titles |-> <<>>]}
    \cup [kind : {"response"}, status : {200, 404}, wellformed : {FALSE}, titles : {<<>>}]
    \cup [kind : {"response"}, status : {200, 404}, wellformed : {TRUE}, titles : TitleLists]

(* ----------------------------- messages -------------------------------- *)

CoverageMsg == "The coverage score does not meet the coverage threshold."
LintMsg == "The lint score does not meet the lint threshold."
MismatchMsg == "The versions do not match across the important files."
ChangelogMsg == "The latest version in CHANGELOG.md is greater or equal to the latest in PyPi, do not release."
PypiConfigMsg == "The latest version in the PyPi config is greater or equal to the latest in PyPi, do not release."
DocsMsg == "The latest version in docs config is greater or equal to the latest in PyPi, do not release."
DirtyMsg == "No releasing the project with staged or modified files in the git repo."
Exiting == "Exiting."
CoverageOk == "Coverage score meets the threshold."
LintOk == "Lint score meets the threshold."
VersionsMatchOk == "All of the versions match in the important files (CHANGELOG.md, setup.py, docs/conf.py)."
GoodToRelease == "All versions locally are greater than published PyPi modules, good to release."

(* ------------------------------ helpers -------------------------------- *)

MIN_COVERAGE_SCORE == 800
MIN_LINT_SCORE == 900

IsNone(v) == v = None

Min(a, b) == IF a < b THEN a ELSE b

\* Python's str < : the first differing code point decides, a proper prefix
\* is smaller.
RECURSIVE StrLessFrom(_, _, _)
StrLessFrom(a, b, i) ==
    IF i > Min(Len(a), Len(b)) THEN Len(a) < Len(b)
    ELSE IF a[i] # b[i] THEN a[i] < b[i]
    ELSE StrLessFrom(a, b, i + 1)

StrLess(a, b) == StrLessFrom(a, b, 1)

\* StrGe with > in place of >=.
StrGe_Strict(a, b) == StrLess(b, a)

\* Python's str >= .
StrGe(a, b) == ~StrLess(a, b)

\* The number of times msg is in list.
Count(msg, list) == Cardinality({i \in DOMAIN list : list[i] = msg})

Has(msg, list) == Count(msg, list) > 0

\* json_coverage["totals"]["percent_covered"] / 100, in thousandths.
CoverageOf(percent) == (percent * 1000) \div 100

\* float(<rating>) / 10, in thousandths, the rating given in tenths.
LintOf(rating) == (rating * 1000) \div (10 * 10)

\* MeetsThreshold with > in place of >=.
MeetsThreshold_Strict(score, threshold) == score > threshold

\* a >= b of two scores (lines 131 and 132).
MeetsThreshold(score, threshold) == score >= threshold

\* changelog_version == pypi_config_version == docs_version (line 133).
VersionsEqual(c, p, d) == c = p /\ p = d

\* The loop of lines 56 to 60: the text of the title element of index 1.
SecondTitle(titles) == IF Len(titles) >= 2 THEN titles[2] ELSE None

\* HasViolations that lets a single message through.
HasViolations_MoreThanOne(list) == Len(list) > 1

\* `if err_msg_list:` (line 176).
HasViolations(list) == list # <<>>

\* ReleaseReady with the operands of each < exchanged.
ReleaseReady_Reversed(latest, c, p, d) ==
    /\ ~IsNone(latest)
    /\ StrLess(c, latest)
    /\ StrLess(p, latest)
    /\ StrLess(d, latest)

\* The condition of lines 183 to 186.
ReleaseReady(latest, c, p, d) ==
    /\ ~IsNone(latest)
    /\ StrLess(latest, c)
    /\ StrLess(latest, p)
    /\ StrLess(latest, d)

\* The steps of main(), in program order.
Steps == <<"parse_args", "get_coverage_score", "get_lint_score", "get_local_versions",
           "thresholds", "http_get", "parse_feed", "check_version_match",
           "cmp_changelog", "cmp_pypi_config", "cmp_docs", "check_working_tree",
           "gate", "exit0", "exit1">>

Idx(step) == CHOOSE i \in DOMAIN Steps : Steps[i] = step

\* AfterThresholds that enters the release checks whatever the flag.
AfterThresholds_Always(flag) == "http_get"

\* Where main() goes after line 147: into `if args.release_check:` or past it.
AfterThresholds(flag) == IF flag THEN "http_get" ELSE "gate"

(* ------------------------------- Init ---------------------------------- *)

Init ==
    /\ pc = "parse_args"
    /\ exc = NoExc
    /\ release_check = FALSE
    /\ coverage_score = -1
    /\ lint_score = -1
    /\ changelog_version = None
    /\ pypi_config_version = None
    /\ docs_version = None
    /\ meets_coverage = FALSE
    /\ meets_lint = FALSE
    /\ version_match = FALSE
    /\ err_msg_list = <<>>
    /\ latest_published_version = None
    /\ req = NoReq
    /\ count_modified_files = 0
    /\ count_staged_files = 0
    /\ stdout = <<>>
    /\ exit_code = -1
    /\ ops = <<>>

(* ------------------------------ actions -------------------------------- *)

\* An exception no one catches: the interpreter prints a traceback and the
\* process exits with status 1, at the step that raised.
Raise(e) ==
    /\ exc' = e
    /\ exit_code' = 1

Goto(step) ==
    /\ pc' = step
    /\ UNCHANGED <<exc, exit_code>>

\* Lines 122 to 125.
ParseArgs ==
    /\ pc = "parse_args" /\ exc = NoExc
    /\ \E flag \in BOOLEAN : release_check' = flag
    /\ Goto("get_coverage_score")
    /\ UNCHANGED <<coverage_score, lint_score, changelog_version, pypi_config_version,
                   docs_version, meets_coverage, meets_lint, version_match, err_msg_list,
                   latest_published_version, req, count_modified_files,
                   count_staged_files, stdout, ops>>

\* Line 127, get_coverage_score().
GetCoverageScore ==
    /\ pc = "get_coverage_score" /\ exc = NoExc
    /\ ops' = Append(ops, "read coverage.tfc.json")
    /\ \E file \in ReportFiles(CoveragePercents) :
          IF file.kind = "missing"
          THEN Raise("FileNotFoundError") /\ UNCHANGED <<pc, coverage_score>>
          ELSE IF file.kind = "malformed"
          THEN Raise("ParseError") /\ UNCHANGED <<pc, coverage_score>>
          ELSE coverage_score' = CoverageOf(file.number) /\ Goto("get_lint_score")
    /\ UNCHANGED <<release_check, lint_score, changelog_version, pypi_config_version,
                   docs_version, meets_coverage, meets_lint, version_match, err_msg_list,
                   latest_published_version, req, count_modified_files,
                   count_staged_files, stdout>>

\* Line 128, get_lint_score().
GetLintScore ==
    /\ pc = "get_lint_score" /\ exc = NoExc
    /\ ops' = Append(ops, "read lint_output.txt")
    /\ \E file \in ReportFiles(LintRatings) :
          IF file.kind = "missing"
          THEN Raise("FileNotFoundError") /\ UNCHANGED <<pc, lint_score>>
          ELSE IF file.kind = "malformed"
          THEN Raise("ParseError") /\ UNCHANGED <<pc, lint_score>>
          ELSE lint_score' = LintOf(file.number) /\ Goto("get_local_versions")
    /\ UNCHANGED <<release_check, coverage_score, changelog_version, pypi_config_version,
                   docs_version, meets_coverage, meets_lint, version_match, err_msg_list,
                   latest_published_version, req, count_modified_files,
                   count_staged_files, stdout>>

\* The files get_local_versions() opens before it returns or raises.
VersionReads(changelog, setup) ==
    <<"read CHANGELOG.md">>
    \o (IF changelog.kind # "ok" THEN <<>> ELSE <<"read setup.py">>)
    \o (IF changelog.kind # "ok" \/ setup.kind # "ok" THEN <<>> ELSE <<"read docs/conf.py">>)

\* The exception of the first of the three files that cannot be read.
VersionReadError(changelog, setup, conf) ==
    LET first == IF changelog.kind # "ok" THEN changelog
                 ELSE IF setup.kind # "ok" THEN setup ELSE conf
    IN  IF first.kind = "missing" THEN "FileNotFoundError" ELSE "IndexError"

\* Line 129, get_local_versions(): the three files are read in turn, and the
\* three versions are assigned only when all three were read.
GetLocalVersions ==
    /\ pc = "get_local_versions" /\ exc = NoExc
    /\ \E changelog \in ChangelogFiles, setup \in QuotedFiles, conf \in QuotedFiles :
          /\ ops' = ops \o VersionReads(changelog, setup)
          /\ IF changelog.kind # "ok" \/ setup.kind # "ok" \/ conf.kind # "ok"
             THEN /\ Raise(VersionReadError(changelog, setup, conf))
                  /\ UNCHANGED <<pc, changelog_version, pypi_config_version, docs_version>>
             ELSE /\ changelog_version' = changelog.version
                  /\ pypi_config_version' = setup.version
                  /\ docs_version' = conf.version
                  /\ Goto("thresholds")
    /\ UNCHANGED <<release_check, coverage_score, lint_score, meets_coverage, meets_lint,
                   version_match, err_msg_list, latest_published_version, req,
                   count_modified_files, count_staged_files, stdout>>

\* Lines 131 to 147.
EvalThresholds ==
    /\ pc = "thresholds" /\ exc = NoExc
    /\ meets_coverage' = MeetsThreshold(coverage_score, MIN_COVERAGE_SCORE)
    /\ meets_lint' = MeetsThreshold(lint_score, MIN_LINT_SCORE)
    /\ version_match' = VersionsEqual(changelog_version, pypi_config_version, docs_version)
    /\ err_msg_list' = (IF meets_coverage' THEN <<>> ELSE <<CoverageMsg>>)
                       \o (IF meets_lint' THEN <<>> ELSE <<LintMsg>>)
    /\ latest_published_version' = None
    /\ Goto(AfterThresholds(release_check))
    /\ UNCHANGED <<release_check, coverage_score, lint_score, changelog_version,
                   pypi_config_version, docs_version, req, count_modified_files,
                   count_staged_files, stdout, ops>>

\* Line 52: requests.get raises when there is no answer, and returns the
\* response whatever its status.
HttpGet ==
    /\ pc = "http_get" /\ exc = NoExc
    /\ ops' = Append(ops, "http_get")
    /\ \E response \in Responses :
          IF response.kind = "network_failure"
          THEN Raise("ConnectionError") /\ UNCHANGED <<pc, req>>
          ELSE req' = response /\ Goto("parse_feed")
    /\ UNCHANGED <<release_check, coverage_score, lint_score, changelog_version,
                   pypi_config_version, docs_version, meets_coverage, meets_lint,
                   version_match, err_msg_list, latest_published_version,
                   count_modified_files, count_staged_files, stdout>>

\* Lines 53 to 62 and the assignment of line 150: ET.fromstring raises on
\* content that is not well-formed; the function's locals end with it.
ParseFeed ==
    /\ pc = "parse_feed" /\ exc = NoExc
    /\ IF ~req.wellformed
       THEN Raise("ParseError") /\ UNCHANGED <<pc, req, latest_published_version>>
       ELSE /\ latest_published_version' = SecondTitle(req.titles)
            /\ req' = NoReq
            /\ Goto("check_version_match")
    /\ UNCHANGED <<release_check, coverage_score, lint_score, changelog_version,
                   pypi_config_version, docs_version, meets_coverage, meets_lint,
                   version_match, err_msg_list, count_modified_files,
                   count_staged_files, stdout, ops>>

\* Lines 152 to 157.
CheckVersionMatch ==
    /\ pc = "check_version_match" /\ exc = NoExc
    /\ err_msg_list' = IF version_match THEN err_msg_list
                       ELSE Append(err_msg_list, MismatchMsg)
    /\ Goto("cmp_changelog")
    /\ UNCHANGED <<release_check, coverage_score, lint_score, changelog_version,
                   pypi_config_version, docs_version, meets_coverage, meets_lint,
                   version_match, latest_published_version, req, count_modified_files,
                   count_staged_files, stdout, ops>>

\* `if latest_published_version >= local: err_msg_list.append(msg)`: >= of a
\* None raises TypeError.
Compare(step, local, msg, next) ==
    /\ pc = step /\ exc = NoExc
    /\ IF IsNone(latest_published_version) \/ IsNone(local)
       THEN Raise("TypeError") /\ UNCHANGED <<pc, err_msg_list>>
       ELSE /\ err_msg_list' = IF StrGe(latest_published_version, local)
                               THEN Append(err_msg_list, msg)
                               ELSE err_msg_list
            /\ Goto(next)
    /\ UNCHANGED <<release_check, coverage_score, lint_score, changelog_version,
                   pypi_config_version, docs_version, meets_coverage, meets_lint,
                   version_match, latest_published_version, req, count_modified_files,
                   count_staged_files, stdout, ops>>

\* Lines 159 to 161.
CompareChangelog ==
    Compare("cmp_changelog", changelog_version, ChangelogMsg, "cmp_pypi_config")

\* Lines 163 to 165.
ComparePypiConfig ==
    Compare("cmp_pypi_config", pypi_config_version, PypiConfigMsg, "cmp_docs")

\* Lines 168 to 170.
CompareDocs ==
    Compare("cmp_docs", docs_version, DocsMsg, "check_working_tree")

\* Lines 172 to 174, has_staged_or_modified_files().
CheckWorkingTree ==
    /\ pc = "check_working_tree" /\ exc = NoExc
    /\ ops' = ops \o <<"git index diff None", "git index diff HEAD">>
    /\ \E modified \in 0..MaxChanged, staged \in 0..MaxChanged :
          /\ count_modified_files' = modified
          /\ count_staged_files' = staged
          /\ err_msg_list' = IF (modified > 0) \/ (staged > 0)
                             THEN Append(err_msg_list, DirtyMsg)
                             ELSE err_msg_list
    /\ Goto("gate")
    /\ UNCHANGED <<release_check, coverage_score, lint_score, changelog_version,
                   pypi_config_version, docs_version, meets_coverage, meets_lint,
                   version_match, latest_published_version, req, stdout>>

\* Lines 176 to 187: sys.exit(1) after the messages, or the confirmation
\* lines and the end of main(), status 0.
Gate ==
    /\ pc = "gate" /\ exc = NoExc
    /\ IF HasViolations(err_msg_list)
       THEN /\ stdout' = stdout \o err_msg_list \o <<Exiting>>
            /\ exit_code' = 1
            /\ pc' = "exit1"
       ELSE /\ stdout' = stdout \o <<CoverageOk, LintOk, VersionsMatchOk>>
                         \o (IF ReleaseReady(latest_published_version, changelog_version,
                                             pypi_config_version, docs_version)
                             THEN <<GoodToRelease>> ELSE <<>>)
            /\ exit_code' = 0
            /\ pc' = "exit0"
    /\ UNCHANGED <<exc, release_check, coverage_score, lint_score, changelog_version,
                   pypi_config_version, docs_version, meets_coverage, meets_lint,
                   version_match, err_msg_list, latest_published_version, req,
                   count_modified_files, count_staged_files, ops>>

Next ==
    \/ ParseArgs
    \/ GetCoverageScore
    \/ GetLintScore
    \/ GetLocalVersions
    \/ EvalThresholds
    \/ HttpGet
    \/ ParseFeed
    \/ CheckVersionMatch
    \/ CompareChangelog
    \/ ComparePypiConfig
    \/ CompareDocs
    \/ CheckWorkingTree
    \/ Gate

Spec == Init /\ [][Next]_vars

(* ----------------------------- properties ------------------------------ *)

Crashed == exc # NoExc

\* The run is over: main() returned, called sys.exit(1), or raised.
Ended == pc \in {"exit0", "exit1"} \/ Crashed

\* Control has passed step (it ran and did not raise).
Past(step) == Idx(pc) > Idx(step)

\* The same for a step inside `if args.release_check:`.
PastRelease(step) == release_check /\ Past(step)

AllIdentical == changelog_version = pypi_config_version /\ pypi_config_version = docs_version

PassLines == {CoverageOk, LintOk, VersionsMatchOk, GoodToRelease}

\* C1: with --release-check and a fetch that returned None, the run does not
\* end abnormally and no remote-comparison message is added.
C1_AbsentRemoteReachesGate ==
    (PastRelease("parse_feed") /\ IsNone(latest_published_version))
        => /\ ~Crashed
           /\ \A msg \in {ChangelogMsg, PypiConfigMsg, DocsMsg} : ~Has(msg, err_msg_list)

\* What C2 says the fetch returns for a response.
ClaimedLatest(r) ==
    IF r.status \in 200..299 /\ r.wellformed /\ Len(r.titles) >= 2
    THEN r.titles[2]
    ELSE None

\* C2: get_pypi_latest_published_version never raises: the GET's failure, a
\* non-2xx response, malformed XML and fewer than two titles give None, and
\* otherwise the text of the second title is returned.
C2_FetchNeverRaises ==
    [][/\ (pc = "http_get" /\ ~Crashed) => ~Crashed'
       /\ (pc = "parse_feed" /\ ~Crashed)
            => /\ ~Crashed'
               /\ latest_published_version' = ClaimedLatest(req)]_vars

C4_GoodToReleaseIffLocalGreater ==
    Ended =>
      /\ Has(GoodToRelease, stdout) <=>
            /\ err_msg_list = <<>>
            /\ release_check
            /\ ~IsNone(latest_published_version)
            /\ StrLess(latest_published_version, changelog_version)
            /\ StrLess(latest_published_version, pypi_config_version)
            /\ StrLess(latest_published_version, docs_version)
      /\ ~release_check => ~Has(GoodToRelease, stdout)
      /\ latest_published_version
            \in {changelog_version, pypi_config_version, docs_version}
            => ~Has(GoodToRelease, stdout)

\* C4's case: a run that printed the line.
C4_Witness ==
    /\ pc = "exit0"
    /\ release_check
    /\ Has(GoodToRelease, stdout)
    /\ StrLess(latest_published_version, changelog_version)

\* C4 as stated: the line is printed exactly if there is no violation,
\* --release-check was given, the fetch returned a version and all three local
\* versions are strictly less than it.
C4_GoodToReleaseIffLocalLess ==
    Ended =>
      (Has(GoodToRelease, stdout) <=>
            /\ err_msg_list = <<>>
            /\ release_check
            /\ ~IsNone(latest_published_version)
            /\ StrLess(changelog_version, latest_published_version)
            /\ StrLess(pypi_config_version, latest_published_version)
            /\ StrLess(docs_version, latest_published_version))

\* C5: a run that reaches the gate decision exits with 1 exactly if the
\* message list is not empty and with 0 exactly if it is empty; pass lines are
\* printed only on the exit-0 path, 'Exiting.' only on the exit-1 path.
C5_ExitStatusFollowsList ==
    /\ pc = "exit1" => /\ err_msg_list # <<>>
                       /\ exit_code = 1
                       /\ Has(Exiting, stdout)
    /\ pc = "exit0" => /\ err_msg_list = <<>>
                       /\ exit_code = 0
                       /\ Has(CoverageOk, stdout)
    /\ (\E line \in PassLines : Has(line, stdout)) => pc = "exit0"
    /\ Has(Exiting, stdout) => pc = "exit1"

\* C5's case: a run that left through sys.exit(1).
C5_Witness ==
    /\ pc = "exit1"
    /\ exit_code = 1
    /\ stdout = <<CoverageMsg, Exiting>>

\* C6: in every run, once lines 131 to 145 have run, the coverage message is in
\* the list exactly once if coverage_score < 0.8 and not at all otherwise, the
\* lint message likewise for 0.9, each whatever the other score; without
\* --release-check no other message exists, the run does not raise, and with
\* both scores at their thresholds it ends with no violation and status 0.
C6_ThresholdChecks ==
    /\ Count(CoverageMsg, err_msg_list) =
          (IF Past("thresholds") /\ coverage_score < MIN_COVERAGE_SCORE THEN 1 ELSE 0)
    /\ Count(LintMsg, err_msg_list) =
          (IF Past("thresholds") /\ lint_score < MIN_LINT_SCORE THEN 1 ELSE 0)
    /\ (~release_check /\ Past("thresholds")) =>
          /\ ~Crashed
          /\ \A i \in DOMAIN err_msg_list : err_msg_list[i] \in {CoverageMsg, LintMsg}
          /\ (Ended /\ coverage_score >= MIN_COVERAGE_SCORE /\ lint_score >= MIN_LINT_SCORE)
                => (pc = "exit0" /\ err_msg_list = <<>> /\ exit_code = 0)

\* C6's case: coverage at 0.5 and a passing lint score, without --release-check.
C6_Witness ==
    /\ pc = "exit1"
    /\ ~release_check
    /\ coverage_score = 500
    /\ lint_score = 950
    /\ err_msg_list = <<CoverageMsg>>

\* C7: once the versions are collected and the run is over, the version-mismatch
\* message has been produced exactly if --release-check was given and the three
\* version strings are not all identical.
C7_MismatchIffReleaseCheck ==
    (Ended /\ Past("get_local_versions"))
        => (Has(MismatchMsg, err_msg_list) <=> (release_check /\ ~AllIdentical))

\* C8: a run that got past the file reads prints, once and at its end, one
\* message for every applicable check that failed: coverage, lint, and under
\* --release-check version match, each remote comparison made, and a dirty
\* working tree.
C8_EveryViolationPrinted ==
    (Ended /\ Past("get_local_versions")) =>
      /\ coverage_score < MIN_COVERAGE_SCORE => Count(CoverageMsg, stdout) = 1
      /\ lint_score < MIN_LINT_SCORE => Count(LintMsg, stdout) = 1
      /\ (release_check /\ ~AllIdentical) => Count(MismatchMsg, stdout) = 1
      /\ \A msg \in {ChangelogMsg, PypiConfigMsg, DocsMsg, DirtyMsg} :
            Has(msg, err_msg_list) => Count(msg, stdout) = 1

\* The external operations of a complete run.
FileReads == <<"read coverage.tfc.json", "read lint_output.txt", "read CHANGELOG.md",
               "read setup.py", "read docs/conf.py">>

ReleaseOps == <<"http_get", "git index diff None", "git index diff HEAD">>

AllOps == FileReads \o (IF release_check THEN ReleaseOps ELSE <<>>)

IsPrefix(a, b) == Len(a) <= Len(b) /\ SubSeq(b, 1, Len(a)) = a

\* C9 (as amended): the external operations happen in the order of the five
\* file reads, then (only with --release-check) the HTTP GET and the working-tree
\* inspection, each at most once; a failed file read ends the run before any gate
\* decision; the gate decision (printing, choosing the exit code) is made only
\* after all of them, while the violation list is begun once the five files have
\* been read, before the HTTP GET and the working-tree inspection.
C9_OperationOrder ==
    /\ IsPrefix(ops, AllOps)
    /\ pc \in {"exit0", "exit1"} => ops = AllOps
    /\ (stdout # <<>> \/ exit_code = 0) => ops = AllOps
    /\ err_msg_list # <<>> => IsPrefix(FileReads, ops)
    /\ (Crashed /\ ~IsPrefix(FileReads, ops)) => (stdout = <<>> /\ err_msg_list = <<>>)

\* C9's case: a complete run with --release-check.
C9_Witness ==
    /\ pc = "exit1"
    /\ release_check
    /\ ops = FileReads \o ReleaseOps

\* C9 as stated: the violation list is built only after every external
\* operation of the run has completed.
C9_ListBuiltAfterAllOperations ==
    /\ IsPrefix(ops, AllOps)
    /\ pc \in {"exit0", "exit1"} => ops = AllOps
    /\ err_msg_list # <<>> => ops = AllOps

\* C10: the version-consistency confirmation line is printed only in runs where
\* the three local version strings are identical.
C10_MatchLineOnlyWhenIdentical ==
    Has(VersionsMatchOk, stdout) => AllIdentical

====
